---- MODULE Spec2Model ----
(***************************************************************************)
(* Service layer of the social-network backend: the connection graph       *)
(* (user_service.py), posts, feed and likes (post_service.py) and direct   *)
(* messages (message_service.py) over the tables of models/database.py.    *)
(*                                                                         *)
(* Every service function runs in one transaction and commits before it    *)
(* returns, so a function is one atomic action here; the only exception is *)
(* SpecRace, which splits like_post at its query to model two overlapping  *)
(* calls on separate sessions.                                             *)
(***************************************************************************)
EXTENDS Integers, Sequences, FiniteSets, TLC

\* ------------------------------------------------------------------ bounds
MaxRequests == 2
MaxPosts == 2
NumPosts == 2
MaxMessages == 2
NumProcs == 2

\* --------------------------------------------------------------- constants
\* Python's None as a return value, and the marker of a call that raised.
None == 0
Raised == -1

\* The ids of the rows of the users table: two users, created before the
\* calls modelled here. NoUser is an id without a row: the service functions
\* take plain integer ids and do not check them against the users table.
Users == {1, 2}
NoUser == Cardinality(Users) + 1
Ids == Users \cup {NoUser}

\* Post ids that callers pass to like_post / unlike_post.
PostIds == 1..NumPosts

\* Callers (sessions) of the overlapping like_post calls.
Procs == 1..NumProcs

VARIABLES
    requests,     \* connection_requests table: row id = index
    connections,  \* connections association table: set of <<user_id, connection_id>>
    headline,     \* users.headline column, per user
    posts,        \* posts table: row id = index
    likes,        \* likes table: number of rows per <<post_id, user_id>>
    messages,     \* messages table: row id = index
    pc,           \* position of each overlapping like_post call
    ret           \* the last service call: its name, arguments and return value

vars == <<requests, connections, headline, posts, likes, messages, pc, ret>>

\* ------------------------------------------------------------ users / graph

\* get_user_by_id: the row, or None.
get_user_by_id(user_id) ==
    IF user_id \in Users THEN user_id ELSE None

\* User.connections: the users reached through rows whose user_id is this user.
UserConnections(user_id) ==
    {c \in Users : <<user_id, c>> \in connections}

\* get_user_connections: [] for an unknown user, else user.connections.
get_user_connections(user_id) ==
    IF get_user_by_id(user_id) = None THEN {} ELSE UserConnections(user_id)

\* The ids of the rows matching sender, receiver and status = "pending".
PendingRequests(sender_id, receiver_id) ==
    {i \in 1..Len(requests) :
        /\ requests[i].sender_id = sender_id
        /\ requests[i].receiver_id = receiver_id
        /\ requests[i].status = "pending"}

\* .first() of a query without ORDER BY: the store scans in row-id order.
First(ids) ==
    CHOOSE i \in ids : \A j \in ids : i <= j

\* ConnectionRequest(sender_id=..., receiver_id=...) with the column default.
NewRequest(sender_id, receiver_id) ==
    [sender_id |-> sender_id, receiver_id |-> receiver_id, status |-> "pending"]

Returned(op, a, b, val) ==
    [op |-> op, a |-> a, b |-> b, val |-> val]

\* A send_connection_request that skips the pending-request lookup.
send_connection_request_nolookup(sender_id, receiver_id) ==
    /\ UNCHANGED <<connections, headline, posts, likes, messages, pc>>
    /\ IF get_user_by_id(sender_id) = None
       THEN /\ ret' = Returned("send", sender_id, receiver_id, Raised)
            /\ UNCHANGED requests
       ELSE IF receiver_id \in {c \in Ids : <<sender_id, c>> \in connections}
       THEN /\ ret' = Returned("send", sender_id, receiver_id, None)
            /\ UNCHANGED requests
       ELSE /\ Len(requests) < MaxRequests
            /\ requests' = Append(requests, NewRequest(sender_id, receiver_id))
            /\ ret' = Returned("send", sender_id, receiver_id, Len(requests) + 1)

send_connection_request(sender_id, receiver_id) ==
    /\ UNCHANGED <<connections, headline, posts, likes, messages, pc>>
    /\ IF PendingRequests(sender_id, receiver_id) # {}
       THEN \* return existing_request
            /\ ret' = Returned("send", sender_id, receiver_id,
                               First(PendingRequests(sender_id, receiver_id)))
            /\ UNCHANGED requests
       ELSE IF get_user_by_id(sender_id) = None
       THEN \* sender is None: sender.connections raises AttributeError
            /\ ret' = Returned("send", sender_id, receiver_id, Raised)
            /\ UNCHANGED requests
       ELSE IF receiver_id \in {c \in Ids : <<sender_id, c>> \in connections}
       THEN \* already connected: return None
            /\ ret' = Returned("send", sender_id, receiver_id, None)
            /\ UNCHANGED requests
       ELSE \* db.add(request); db.commit(); db.refresh(request)
            /\ Len(requests) < MaxRequests
            /\ requests' = Append(requests, NewRequest(sender_id, receiver_id))
            /\ ret' = Returned("send", sender_id, receiver_id, Len(requests) + 1)

\* The rows sender.connections.append(receiver) adds at commit. A receiver
\* without a users row is None, which the ORM skips when it flushes the
\* collection; a row already present is not inserted again.
AppendedConnections(sender_id, receiver_id) ==
    IF get_user_by_id(receiver_id) = None
    THEN {}
    ELSE {<<sender_id, receiver_id>>}

\* An accept_connection_request that tests only that the row exists.
accept_connection_request_noguard(request_id) ==
    /\ UNCHANGED <<headline, posts, likes, messages, pc>>
    /\ IF request_id \notin 1..Len(requests)
       THEN /\ ret' = Returned("accept", request_id, 0, None)
            /\ UNCHANGED <<requests, connections>>
       ELSE /\ requests' = [requests EXCEPT ![request_id].status = "accepted"]
            /\ connections' = connections \cup
                   AppendedConnections(requests[request_id].sender_id,
                                       requests[request_id].receiver_id)
            /\ ret' = Returned("accept", request_id, 0, request_id)

accept_connection_request(request_id) ==
    /\ UNCHANGED <<headline, posts, likes, messages, pc>>
    /\ IF \/ request_id \notin 1..Len(requests)
          \/ requests[request_id].status # "pending"
       THEN /\ ret' = Returned("accept", request_id, 0, None)
            /\ UNCHANGED <<requests, connections>>
       ELSE /\ requests' = [requests EXCEPT ![request_id].status = "accepted"]
            /\ connections' = connections \cup
                   AppendedConnections(requests[request_id].sender_id,
                                       requests[request_id].receiver_id)
            /\ ret' = Returned("accept", request_id, 0, request_id)

reject_connection_request(request_id) ==
    /\ UNCHANGED <<connections, headline, posts, likes, messages, pc>>
    /\ IF \/ request_id \notin 1..Len(requests)
          \/ requests[request_id].status # "pending"
       THEN /\ ret' = Returned("reject", request_id, 0, None)
            /\ UNCHANGED requests
       ELSE /\ requests' = [requests EXCEPT ![request_id].status = "rejected"]
            /\ ret' = Returned("reject", request_id, 0, request_id)

\* The keyword names update_profile is called with here: a plain column, the
\* two sides of the connections relationship, the two excluded names and a
\* name User does not have.
ProfileKeys ==
    {"headline", "connections", "connected_to", "id", "hashed_password", "nickname"}

\* hasattr(user, key)
HasAttr(key) ==
    key \in {"headline", "connections", "connected_to", "id", "hashed_password"}

\* update_profile(user_id, **{key: value}). The value of "headline" is a
\* string (TRUE for the new one); the value of a relationship name is a list
\* of User rows, which replaces that side of the association table at commit.
update_profile(user_id, key, value) ==
    /\ UNCHANGED <<requests, posts, likes, messages, pc>>
    /\ IF get_user_by_id(user_id) = None
       THEN /\ ret' = Returned("update_profile", user_id, 0, None)
            /\ UNCHANGED <<connections, headline>>
       ELSE /\ ret' = Returned("update_profile", user_id, 0, user_id)
            /\ IF HasAttr(key) /\ key # "id" /\ key # "hashed_password"
               THEN CASE key = "headline" ->
                            /\ headline' = [headline EXCEPT ![user_id] = TRUE]
                            /\ UNCHANGED connections
                      [] key = "connections" ->
                            /\ connections' =
                                 {e \in connections : e[1] # user_id}
                                   \cup {<<user_id, c>> : c \in value}
                            /\ UNCHANGED headline
                      [] key = "connected_to" ->
                            /\ connections' =
                                 {e \in connections : e[2] # user_id}
                                   \cup {<<c, user_id>> : c \in value}
                            /\ UNCHANGED headline
               ELSE UNCHANGED <<connections, headline>>

\* ------------------------------------------------------------ query helpers

\* created_at of a new row: the column default datetime.utcnow() at insert.
\* Every insert is followed by a commit before the call returns, so the rows
\* of a table carry distinct, increasing values; only their order is read,
\* so they are numbered from 1.
utcnow(table) ==
    IF table = <<>> THEN 1 ELSE table[Len(table)].created_at + 1

\* ORDER BY created_at ASC / DESC: whether row i comes before row j.
Before(i, j, table, desc) ==
    IF desc
    THEN table[i].created_at > table[j].created_at
    ELSE table[i].created_at < table[j].created_at

RECURSIVE OrderBy(_, _, _)
OrderBy(ids, table, desc) ==
    IF ids = {}
    THEN <<>>
    ELSE LET h == CHOOSE i \in ids : \A j \in ids \ {i} : Before(i, j, table, desc)
         IN  <<h>> \o OrderBy(ids \ {h}, table, desc)

\* .offset(skip).limit(limit)
OffsetLimit(rows, skip, limit) ==
    SubSeq(rows, skip + 1, IF skip + limit < Len(rows) THEN skip + limit ELSE Len(rows))

Range(s) ==
    {s[i] : i \in 1..Len(s)}

\* -------------------------------------------------------------------- posts

\* create_post without an image: Post(author_id, content), commit, refresh.
create_post(author_id) ==
    /\ Len(posts) < MaxPosts
    /\ posts' = Append(posts, [author_id |-> author_id, created_at |-> utcnow(posts)])
    /\ ret' = Returned("create_post", author_id, 0, Len(posts) + 1)
    /\ UNCHANGED <<requests, connections, headline, likes, messages, pc>>

\* get_feed_posts: the ids of the posts returned, in order.
get_feed_posts(user_id, skip, limit) ==
    IF get_user_by_id(user_id) = None
    THEN <<>>
    ELSE LET connection_ids == UserConnections(user_id) \cup {user_id}
             rows == {i \in 1..Len(posts) : posts[i].author_id \in connection_ids}
         IN  OffsetLimit(OrderBy(rows, posts, TRUE), skip, limit)

\* -------------------------------------------------------------------- likes

\* A like_post that inserts without looking for an existing row.
like_post_nocheck(post_id, user_id) ==
    /\ likes' = [likes EXCEPT ![<<post_id, user_id>>] = @ + 1]
    /\ ret' = Returned("like", post_id, user_id, TRUE)
    /\ UNCHANGED <<requests, connections, headline, posts, messages, pc>>

\* like_post as one transaction. The returned Like row is not told apart
\* from other rows of the same post and user: val is TRUE for a row.
like_post(post_id, user_id) ==
    /\ IF likes[<<post_id, user_id>>] > 0
       THEN UNCHANGED likes
       ELSE likes' = [likes EXCEPT ![<<post_id, user_id>>] = @ + 1]
    /\ ret' = Returned("like", post_id, user_id, TRUE)
    /\ UNCHANGED <<requests, connections, headline, posts, messages, pc>>

\* unlike_post: deletes the first matching row.
unlike_post(post_id, user_id) ==
    /\ IF likes[<<post_id, user_id>>] > 0
       THEN /\ likes' = [likes EXCEPT ![<<post_id, user_id>>] = @ - 1]
            /\ ret' = Returned("unlike", post_id, user_id, TRUE)
       ELSE /\ UNCHANGED likes
            /\ ret' = Returned("unlike", post_id, user_id, FALSE)
    /\ UNCHANGED <<requests, connections, headline, posts, messages, pc>>

has_liked_post(post_id, user_id) ==
    likes[<<post_id, user_id>>] > 0

RECURSIVE SumLikes(_, _)
SumLikes(post_id, users) ==
    IF users = {}
    THEN 0
    ELSE LET u == CHOOSE x \in users : TRUE
         IN  likes[<<post_id, u>>] + SumLikes(post_id, users \ {u})

\* get_post_likes_count: the number of Like rows of the post.
get_post_likes_count(post_id) ==
    SumLikes(post_id, Ids)

\* Two overlapping like_post calls, each on its own session. The first step
\* is the query for an existing row; the second is add, commit and refresh.
\* The likes table has no unique constraint on (post_id, user_id), so the
\* commit of a second row for the same pair succeeds.
like_post_query(proc, post_id, user_id) ==
    /\ pc[proc].at = "idle"
    /\ pc' = [pc EXCEPT ![proc] =
                [at |-> IF likes[<<post_id, user_id>>] > 0
                        THEN "returned_existing" ELSE "insert",
                 post_id |-> post_id, user_id |-> user_id]]
    /\ UNCHANGED <<requests, connections, headline, posts, likes, messages, ret>>

\* A commit as it would be under a unique constraint handled by the caller.
like_post_commit_unique(proc) ==
    /\ pc[proc].at = "insert"
    /\ likes' = [likes EXCEPT ![<<pc[proc].post_id, pc[proc].user_id>>] =
                    IF @ > 0 THEN @ ELSE @ + 1]
    /\ pc' = [pc EXCEPT ![proc].at = "inserted"]
    /\ UNCHANGED <<requests, connections, headline, posts, messages, ret>>

like_post_commit(proc) ==
    /\ pc[proc].at = "insert"
    /\ likes' = [likes EXCEPT ![<<pc[proc].post_id, pc[proc].user_id>>] = @ + 1]
    /\ pc' = [pc EXCEPT ![proc].at = "inserted"]
    /\ UNCHANGED <<requests, connections, headline, posts, messages, ret>>

\* ----------------------------------------------------------------- messages

\* send_message: Message(sender_id, receiver_id, content), read = False.
send_message(sender_id, receiver_id) ==
    /\ Len(messages) < MaxMessages
    /\ messages' = Append(messages,
                      [sender_id |-> sender_id, receiver_id |-> receiver_id,
                       read |-> FALSE, created_at |-> utcnow(messages)])
    /\ ret' = Returned("send_message", sender_id, receiver_id, Len(messages) + 1)
    /\ UNCHANGED <<requests, connections, headline, posts, likes, pc>>

\* A get_conversation that orders newest first.
get_conversation_desc(user1_id, user2_id, limit) ==
    LET rows == {i \in 1..Len(messages) :
                   \/ /\ messages[i].sender_id = user1_id
                      /\ messages[i].receiver_id = user2_id
                   \/ /\ messages[i].sender_id = user2_id
                      /\ messages[i].receiver_id = user1_id}
    IN  OffsetLimit(OrderBy(rows, messages, TRUE), 0, limit)

\* get_conversation: the ids of the messages returned, in order.
get_conversation(user1_id, user2_id, limit) ==
    LET rows == {i \in 1..Len(messages) :
                   \/ /\ messages[i].sender_id = user1_id
                      /\ messages[i].receiver_id = user2_id
                   \/ /\ messages[i].sender_id = user2_id
                      /\ messages[i].receiver_id = user1_id}
    IN  OffsetLimit(OrderBy(rows, messages, FALSE), 0, limit)

\* The rows mark_messages_as_read selects.
UnreadFrom(user_id, sender_id) ==
    {i \in 1..Len(messages) :
        /\ messages[i].sender_id = sender_id
        /\ messages[i].receiver_id = user_id
        /\ messages[i].read = FALSE}

\* A mark_messages_as_read that drops the sender filter.
mark_messages_as_read_anysender(user_id, sender_id) ==
    LET selected == {i \in 1..Len(messages) :
                        /\ messages[i].receiver_id = user_id
                        /\ messages[i].read = FALSE}
    IN  /\ messages' = [i \in 1..Len(messages) |->
                          IF i \in selected
                          THEN [messages[i] EXCEPT !.read = TRUE]
                          ELSE messages[i]]
        /\ ret' = Returned("mark_read", user_id, sender_id, Cardinality(selected))
        /\ UNCHANGED <<requests, connections, headline, posts, likes, pc>>

mark_messages_as_read(user_id, sender_id) ==
    LET selected == UnreadFrom(user_id, sender_id)
    IN  /\ messages' = [i \in 1..Len(messages) |->
                          IF i \in selected
                          THEN [messages[i] EXCEPT !.read = TRUE]
                          ELSE messages[i]]
        /\ ret' = Returned("mark_read", user_id, sender_id, Cardinality(selected))
        /\ UNCHANGED <<requests, connections, headline, posts, likes, pc>>

get_unread_messages_count(user_id) ==
    Cardinality({i \in 1..Len(messages) :
                    /\ messages[i].receiver_id = user_id
                    /\ messages[i].read = FALSE})

\* db.query(Message.receiver_id).filter(Message.sender_id == user_id).distinct()
SentTo(user_id) ==
    {messages[i].receiver_id :
        i \in {k \in 1..Len(messages) : messages[k].sender_id = user_id}}

\* db.query(Message.sender_id).filter(Message.receiver_id == user_id).distinct()
ReceivedFrom(user_id) ==
    {messages[i].sender_id :
        i \in {k \in 1..Len(messages) : messages[k].receiver_id = user_id}}

\* The rows of a query without ORDER BY, in the store's row-id order.
RECURSIVE ScanOrder(_)
ScanOrder(ids) ==
    IF ids = {}
    THEN <<>>
    ELSE <<First(ids)>> \o ScanOrder(ids \ {First(ids)})

\* db.query(User).filter(User.id.in_(user_ids)).all(): only ids that have a
\* row in the users table come back.
ConversationUsers(user_id) ==
    ScanOrder({u \in Users : u \in SentTo(user_id) \cup ReceivedFrom(user_id)})

\* The newest message between the two users, or None: .first() of the
\* query ordered by created_at descending.
LastMessage(user_id, other_id) ==
    LET rows == {i \in 1..Len(messages) :
                   \/ /\ messages[i].sender_id = user_id
                      /\ messages[i].receiver_id = other_id
                   \/ /\ messages[i].sender_id = other_id
                      /\ messages[i].receiver_id = user_id}
    IN  IF rows = {} THEN None ELSE OrderBy(rows, messages, TRUE)[1]

\* One entry of the list get_conversations builds.
Conversation(user_id, other_id) ==
    [user |-> other_id,
     last_message |-> LastMessage(user_id, other_id),
     unread_count |-> Cardinality(UnreadFrom(user_id, other_id))]

\* The sort key: last_message.created_at, or None without a last message
\* (every user of ConversationUsers has a message, so None does not occur).
SortKey(c) ==
    IF c.last_message = None THEN None ELSE messages[c.last_message].created_at

\* list.sort(key=..., reverse=...): stable, entries of equal key keep their
\* order.
RECURSIVE SortConversations(_, _)
SortConversations(convs, reverse) ==
    IF convs = <<>>
    THEN <<>>
    ELSE LET h == CHOOSE i \in 1..Len(convs) :
                     \A j \in 1..Len(convs) :
                         \/ IF reverse
                            THEN SortKey(convs[i]) > SortKey(convs[j])
                            ELSE SortKey(convs[i]) < SortKey(convs[j])
                         \/ SortKey(convs[i]) = SortKey(convs[j]) /\ i <= j
             rest == [k \in 1..(Len(convs) - 1) |->
                        IF k < h THEN convs[k] ELSE convs[k + 1]]
         IN  <<convs[h]>> \o SortConversations(rest, reverse)

\* A get_conversations whose sort lacks reverse=True.
get_conversations_oldest_first(user_id) ==
    LET users == ConversationUsers(user_id)
    IN  SortConversations(
            [k \in 1..Len(users) |-> Conversation(user_id, users[k])], FALSE)

\* get_conversations: the list of entries, sorted by last message, newest
\* first.
get_conversations(user_id) ==
    LET users == ConversationUsers(user_id)
    IN  SortConversations(
            [k \in 1..Len(users) |-> Conversation(user_id, users[k])], TRUE)

\* ----------------------------------------------------------- specifications

InitRet == Returned("init", 0, 0, None)

Init ==
    /\ requests = <<>>
    /\ connections = {}
    /\ headline = [u \in Users |-> FALSE]
    /\ posts = <<>>
    /\ likes = [k \in PostIds \X Ids |-> 0]
    /\ messages = <<>>
    /\ pc = [p \in Procs |-> [at |-> "idle", post_id |-> 0, user_id |-> 0]]
    /\ ret = InitRet

SendRequest ==
    \E s \in Ids, r \in Ids : send_connection_request(s, r)

AcceptRequest ==
    \E i \in 1..(MaxRequests + 1) : accept_connection_request(i)

RejectRequest ==
    \E i \in 1..(MaxRequests + 1) : reject_connection_request(i)

\* The values passed with a keyword: lists of users for the relationship
\* names, one value for the others.
ProfileValues(key) ==
    IF key \in {"connections", "connected_to"} THEN SUBSET Users ELSE {{}}

UpdateProfile ==
    \E u \in Ids, key \in ProfileKeys :
        \E value \in ProfileValues(key) : update_profile(u, key, value)

\* The connection-request flow.
Next ==
    \/ SendRequest
    \/ AcceptRequest
    \/ RejectRequest

Spec == Init /\ [][Next]_vars

\* The connection-request flow with profile updates.
NextProfile ==
    \/ SendRequest
    \/ AcceptRequest
    \/ RejectRequest
    \/ UpdateProfile

SpecProfile == Init /\ [][NextProfile]_vars

CreatePost ==
    \E a \in Ids : create_post(a)

\* The connection-request flow with posting: what the feed reads.
NextFeed ==
    \/ SendRequest
    \/ AcceptRequest
    \/ RejectRequest
    \/ CreatePost

SpecFeed == Init /\ [][NextFeed]_vars

LikePost ==
    \E p \in PostIds, u \in Ids : like_post(p, u)

UnlikePost ==
    \E p \in PostIds, u \in Ids : unlike_post(p, u)

\* Likes, one call at a time.
NextLikes ==
    \/ LikePost
    \/ UnlikePost

SpecLikes == Init /\ [][NextLikes]_vars

LikeQuery ==
    \E proc \in Procs, p \in PostIds, u \in Ids : like_post_query(proc, p, u)

LikeCommit ==
    \E proc \in Procs : like_post_commit(proc)

\* Overlapping like_post calls, one per caller.
NextRace ==
    \/ LikeQuery
    \/ LikeCommit

SpecRace == Init /\ [][NextRace]_vars

SendMessage ==
    \E s \in Ids, r \in Ids : send_message(s, r)

MarkRead ==
    \E u \in Ids, s \in Ids : mark_messages_as_read(u, s)

\* Direct messages.
NextMessages ==
    \/ SendMessage
    \/ MarkRead

SpecMessages == Init /\ [][NextMessages]_vars

\* ------------------------------------------------------------------- claims

Terminal == {"accepted", "rejected"}

\* A request between a and b, in either direction, has been accepted.
Connected(a, b) ==
    \E i \in 1..Len(requests) :
        /\ requests[i].status = "accepted"
        /\ \/ requests[i].sender_id = a /\ requests[i].receiver_id = b
           \/ requests[i].sender_id = b /\ requests[i].receiver_id = a

\* C1: connection symmetry. In every state B is in get_user_connections(A)
\* exactly when A is in get_user_connections(B); in particular right after
\* accept_connection_request succeeded on a request A -> B between users,
\* each of the two is in the other's connections.
C1_ConnectionSymmetry ==
    /\ \A a \in Users, b \in Users :
          b \in get_user_connections(a) <=> a \in get_user_connections(b)
    /\ (/\ ret.op = "accept"
        /\ ret.val # None
        /\ requests[ret.val].receiver_id \in Users)
       => /\ requests[ret.val].receiver_id
                \in get_user_connections(requests[ret.val].sender_id)
          /\ requests[ret.val].sender_id
                \in get_user_connections(requests[ret.val].receiver_id)

\* C2: the request lifecycle is terminal. No step changes the status of a
\* request that is accepted or rejected, and accept or reject called on such
\* a request returns None and leaves the connections table as it was.
C2_RequestLifecycleTerminal ==
    [][\A i \in 1..Len(requests) :
          requests[i].status \in Terminal
          => /\ requests'[i].status = requests[i].status
             /\ (ret'.op \in {"accept", "reject"} /\ ret'.a = i)
                => (ret'.val = None /\ connections' = connections)]_vars

\* C2 witness: accept was called on a rejected request and returned None.
C2_Witness ==
    /\ ret.op = "accept"
    /\ ret.a \in 1..Len(requests)
    /\ requests[ret.a].status = "rejected"
    /\ ret.val = None

\* C3: likes are a set under sequential calls. There is at most one Like row
\* per (post, user); like_post leaves exactly one row for its pair, changes
\* nothing when the row was there, and raises the post's like count by one
\* exactly when it was not; unlike_post on an absent like returns False and
\* changes nothing.
C3_LikesAreASet ==
    /\ [](\A k \in PostIds \X Ids : likes[k] <= 1)
    /\ [][\A p \in PostIds, u \in Ids :
            /\ (ret'.op = "like" /\ ret'.a = p /\ ret'.b = u)
               => /\ likes' = [likes EXCEPT ![<<p, u>>] = 1]
                  /\ likes[<<p, u>>] = 1 => likes' = likes
                  /\ get_post_likes_count(p)' =
                       get_post_likes_count(p)
                         + (IF likes[<<p, u>>] = 0 THEN 1 ELSE 0)
            /\ (ret'.op = "unlike" /\ ret'.a = p /\ ret'.b = u
                  /\ likes[<<p, u>>] = 0)
               => (ret'.val = FALSE /\ likes' = likes)]_vars

\* C3 witness: unlike_post returned False for a pair without a like while
\* another like exists.
C3_Witness ==
    /\ ret.op = "unlike"
    /\ ret.val = FALSE
    /\ likes[<<ret.a, ret.b>>] = 0
    /\ \E k \in PostIds \X Ids : likes[k] = 1

\* C4: send_connection_request between two users that are already connected
\* (a request between them, in either direction, was accepted), with no
\* pending request sender -> receiver, returns None and creates no row.
C4_SendWhenConnectedReturnsNone ==
    [][\A s \in Users, r \in Users :
          (/\ ret'.op = "send" /\ ret'.a = s /\ ret'.b = r
           /\ Connected(s, r)
           /\ PendingRequests(s, r) = {})
          => (ret'.val = None /\ requests' = requests)]_vars

\* C5: feed composition. With skip = 0 and limit the number of posts, the
\* feed of user A holds A's own posts, every post of a user B connected to A
\* (by a request accepted in either direction) and no post of any other user.
C5_FeedComposition ==
    \A a \in Users :
        LET feed == Range(get_feed_posts(a, 0, Len(posts)))
        IN  \A i \in 1..Len(posts) :
               LET b == posts[i].author_id
               IN  /\ b = a => i \in feed
                   /\ (b \in Users /\ b # a /\ Connected(a, b)) => i \in feed
                   /\ (b \in Users /\ b # a /\ ~Connected(a, b)) => i \notin feed

\* C6: unread accounting. mark_messages_as_read(user, sender) returns the
\* number of unread messages from sender to user, sets read on exactly those
\* rows, and afterwards the user's unread count has dropped by that number and
\* no unread message from sender to user is left.
C6_UnreadAccounting ==
    [][\A u \in Ids, s \in Ids :
          (ret'.op = "mark_read" /\ ret'.a = u /\ ret'.b = s)
          => /\ ret'.val = Cardinality(UnreadFrom(u, s))
             /\ messages' = [i \in 1..Len(messages) |->
                               IF i \in UnreadFrom(u, s)
                               THEN [messages[i] EXCEPT !.read = TRUE]
                               ELSE messages[i]]
             /\ get_unread_messages_count(u)' =
                  get_unread_messages_count(u) - Cardinality(UnreadFrom(u, s))
             /\ UnreadFrom(u, s)' = {}]_vars

\* C6 witness: a call marked at least one message while an unread message
\* of another sender to the same user stays unread.
C6_Witness ==
    /\ ret.op = "mark_read"
    /\ ret.val >= 1
    /\ get_unread_messages_count(ret.a) >= 1

\* C7: at most one pending request exists per ordered (sender, receiver), and
\* send_connection_request called while one is pending returns it and adds
\* no row.
C7_AtMostOnePending ==
    /\ [](\A s \in Ids, r \in Ids : Cardinality(PendingRequests(s, r)) <= 1)
    /\ [][\A s \in Ids, r \in Ids :
            (/\ ret'.op = "send" /\ ret'.a = s /\ ret'.b = r
             /\ PendingRequests(s, r) # {})
            => (ret'.val \in PendingRequests(s, r) /\ requests' = requests)]_vars

\* C7 witness: send returned an older pending request although a later row
\* exists.
C7_Witness ==
    /\ ret.op = "send"
    /\ ret.val \in 1..(Len(requests) - 1)
    /\ ret.val \in PendingRequests(ret.a, ret.b)

\* C8: connections come only from acceptance. Every row (A, B) of the
\* connections table has an accepted request A -> B, and no call other than
\* accept_connection_request changes the connections table.
C8_ConnectionsOnlyViaAcceptance ==
    /\ [](\A e \in connections :
            \E i \in 1..Len(requests) :
                /\ requests[i].sender_id = e[1]
                /\ requests[i].receiver_id = e[2]
                /\ requests[i].status = "accepted")
    /\ [][ret'.op # "accept" => connections' = connections]_vars

\* The messages between u1 and u2, in either direction.
Between(u1, u2) ==
    {i \in 1..Len(messages) :
        {messages[i].sender_id, messages[i].receiver_id} = {u1, u2}
        /\ (u1 = u2 => messages[i].sender_id = messages[i].receiver_id)}

\* C9: conversation ordering and cap. get_conversation(u1, u2, limit) returns
\* only messages between u1 and u2, each once, in ascending created_at order;
\* it returns all of them when there are at most limit, and otherwise limit
\* of them, none newer than one left out; swapping u1 and u2 gives the same.
C9_ConversationOrderAndCap ==
    \A u1 \in Ids : \A u2 \in u1..NoUser, limit \in 0..(Len(messages) + 1) :
        LET conv == get_conversation(u1, u2, limit)
            all == Between(u1, u2)
        IN  /\ Range(conv) \subseteq all
            /\ \A x \in 1..Len(conv), y \in 1..Len(conv) :
                  x < y => /\ conv[x] # conv[y]
                           /\ messages[conv[x]].created_at
                                <= messages[conv[y]].created_at
            /\ Len(conv) = IF Cardinality(all) < limit
                           THEN Cardinality(all) ELSE limit
            /\ \A i \in Range(conv), j \in all \ Range(conv) :
                  messages[i].created_at <= messages[j].created_at
            /\ conv = get_conversation(u2, u1, limit)

\* C9 witness: two messages, one in each direction
\* between two users, and a limit of 1 that cuts the newer one off.
C9_Witness ==
    \E u1 \in Users, u2 \in Users :
        /\ u1 # u2
        /\ Len(messages) = 2
        /\ messages[1].sender_id = u1 /\ messages[1].receiver_id = u2
        /\ messages[2].sender_id = u2 /\ messages[2].receiver_id = u1
        /\ messages[1].created_at < messages[2].created_at
        /\ get_conversation(u2, u1, 1) = <<1>>

\* The callers that passed the existence check for (post, user) and committed.
Inserted(post_id, user_id) ==
    {proc \in Procs :
        /\ pc[proc].at = "inserted"
        /\ pc[proc].post_id = post_id
        /\ pc[proc].user_id = user_id}

\* C10: the like race. Every like_post call that passed the existence check
\* commits a row of its own, whatever was committed in between, so the
\* number of Like rows of a pair is the number of such calls (two when two
\* calls for the same pair overlap).
C10_LikeRace ==
    \A p \in PostIds, u \in Ids :
        likes[<<p, u>>] = Cardinality(Inserted(p, u))

\* C10 witness: two Like rows for one post and user.
C10_Witness ==
    \E p \in PostIds, u \in Users :
        /\ likes[<<p, u>>] = 2
        /\ Cardinality(Inserted(p, u)) = 2

\* Every message's sender and receiver have a row in the users table.
MessagesBetweenUsers ==
    \A i \in 1..Len(messages) :
        messages[i].sender_id \in Users /\ messages[i].receiver_id \in Users

\* The peers of u: whoever sent a message to u or received one from u.
Peers(u) ==
    {p \in Ids : Between(u, p) # {}}

\* C11: conversation summaries. When every message is between existing
\* users, get_conversations(u) has exactly one entry per peer of u; each
\* entry's last_message is not None and is the newest message between u and
\* the peer in either direction; unread_count is the number of unread
\* messages from the peer to u; entries are in descending order of their
\* last message's created_at.
C11_ConversationSummaries ==
    MessagesBetweenUsers
    => \A u \in Ids :
          LET convs == get_conversations(u)
          IN  /\ {convs[k].user : k \in 1..Len(convs)} = Peers(u)
              /\ Len(convs) = Cardinality(Peers(u))
              /\ \A k \in 1..Len(convs) :
                    /\ convs[k].last_message # None
                    /\ convs[k].last_message \in Between(u, convs[k].user)
                    /\ \A j \in Between(u, convs[k].user) :
                          messages[j].created_at
                            <= messages[convs[k].last_message].created_at
                    /\ convs[k].unread_count =
                         Cardinality({j \in 1..Len(messages) :
                                        /\ messages[j].sender_id = convs[k].user
                                        /\ messages[j].receiver_id = u
                                        /\ messages[j].read = FALSE})
              /\ \A x \in 1..Len(convs), y \in 1..Len(convs) :
                    x < y => messages[convs[x].last_message].created_at
                               > messages[convs[y].last_message].created_at

\* C11 witness: a user with two peers, an unread message from the peer of
\* the newest conversation and none from the other.
C11_Witness ==
    /\ MessagesBetweenUsers
    /\ \E u \in Users :
          /\ Len(get_conversations(u)) = 2
          /\ get_conversations(u)[1].unread_count = 1
          /\ get_conversations(u)[2].unread_count = 0
          /\ get_conversations(u)[1].last_message = 2

====
